---- MODULE Spec2Model ----
(***************************************************************************)
(* speedyspotify: the concurrent request engine of the Spotify client.     *)
(*                                                                         *)
(* The model follows src/speedyspotify/client.py and util.py:              *)
(*   - util.py: id_from_str, get_ids, find_item, chunked, extract_list     *)
(*     are operators over tagged Python/JSON values;                       *)
(*   - client.py: _request spawns a greenlet, all() expands one call into  *)
(*     page or chunk requests (the loops take one step per dispatch, so    *)
(*     greenlets may finish between two dispatches), _join_one/_join_many  *)
(*     wait for greenlets and turn their responses into a result.          *)
(*                                                                         *)
(* Python values are tagged records: [t |-> "str", v |-> <<tokens>>] etc.  *)
(* A Python str is a sequence of tokens ("spotify", ":", "/", "http",      *)
(* identifiers), so that startswith and split act on its structure.        *)
(* A dict is the ordered sequence of its key/value pairs.                  *)
(***************************************************************************)
EXTENDS Integers, Sequences, FiniteSets, TLC

VARIABLES
    serverTotal,  \* the total the API reports for the paginated result set
    gpool,        \* size of self._gpool, 0 when the client has no pool
    greenlets,    \* every greenlet spawned by _request, in dispatch order
    finished,     \* indices of finished greenlets, in completion order
    pc,           \* where the calling flow is
    frame,        \* local variables of the call the calling flow runs
    handle,       \* what the caller holds: a greenlet or a GletList
    ret,          \* the outcome of the last call that returned or raised
    joins,        \* number of join calls made so far
    clients       \* the clients constructed, and the one the all helpers
                  \* on the methods of the class are bound to

vars ==
    <<serverTotal, gpool, greenlets, finished, pc, frame, handle, ret, joins,
      clients>>

\* what no call on a client changes: the clients there are, the pool of the
\* client and the result set of the server
setup == <<clients, serverTotal, gpool>>

(***************************************************************************)
(* Bounds of the model.                                                    *)
(***************************************************************************)
MaxTotal == 4     \* largest result set whose expansion is followed
MaxIds == 3       \* longest argument list whose expansion is followed
MaxLimit == 2     \* largest max_limit of an endpoint
MaxChunk == 2     \* largest chunk_size of an endpoint
MaxResults == 2   \* largest result set or list when requests are joined
MaxJoins == 2     \* number of join calls the caller makes
MaxPool == 2      \* largest pool_size of a client with gpool=True
MaxDepth == 3     \* deepest nesting of the mappings find_item searches
MaxItems == 2     \* longest list get_ids is applied to on its own
MaxClients == 2   \* number of clients constructed

(***************************************************************************)
(* Python / JSON values.                                                   *)
(***************************************************************************)
None == [t |-> "None"]
PyInt(n) == [t |-> "int", v |-> n]
PyStr(s) == [t |-> "str", v |-> s]
PyList(s) == [t |-> "list", v |-> s]
PyDict(pairs) == [t |-> "dict", v |-> pairs]
KV(k, x) == [k |-> k, v |-> x]

IsDict(x) == x.t = "dict"
IsList(x) == x.t = "list"
IsStr(x) == x.t = "str"

\* `key in d` and `d[key]` for a dict
HasKey(d, key) == \E i \in 1..Len(d.v) : d.v[i].k = key
GetKey(d, key) == d.v[CHOOSE i \in 1..Len(d.v) : d.v[i].k = key].v

\* the outcome of a call: a returned value or a raised exception
Return(x) == [kind |-> "return", value |-> x]
Exc(type) == [type |-> type]
Raise(e) == [kind |-> "raise", exc |-> Exc(e)]
Returned(o) == o.kind = "return"
Raised(o) == o.kind = "raise"

RECURSIVE LastIndexOf(_, _, _)
LastIndexOf(s, tok, i) ==
    IF i = 0 THEN 0
    ELSE IF s[i] = tok THEN i ELSE LastIndexOf(s, tok, i - 1)

\* strid.split(sep)[-1]
SplitLast(s, sep) == SubSeq(s, LastIndexOf(s, sep, Len(s)) + 1, Len(s))

\* util.id_from_str
id_from_str(strid) ==
    IF Len(strid) >= 1 /\ strid[1] = "http" THEN SplitLast(strid, "/")
    ELSE IF Len(strid) >= 2 /\ strid[1] = "spotify" /\ strid[2] = ":"
         THEN SplitLast(strid, ":")
    ELSE strid

\* util.find_item: None when the key is found nowhere
RECURSIVE find_item(_, _)
RECURSIVE find_in_values(_, _, _)
find_item(key, item) ==
    IF HasKey(item, key) THEN GetKey(item, key)
    ELSE find_in_values(key, item, 1)

\* (mutant) `return find_item(key, v)`: the first mapping-valued field
\* decides, the fields after it are not searched
RECURSIVE find_in_first_value(_, _, _)
find_in_first_value(key, item, i) ==
    IF i > Len(item.v) THEN None
    ELSE IF IsDict(item.v[i].v) THEN find_item(key, item.v[i].v)
    ELSE find_in_first_value(key, item, i + 1)

find_in_values(key, item, i) ==
    IF i > Len(item.v) THEN None
    ELSE IF IsDict(item.v[i].v)
         THEN LET found == find_item(key, item.v[i].v)
              IN  IF found # None THEN found
                  ELSE find_in_values(key, item, i + 1)
         ELSE find_in_values(key, item, i + 1)

(***************************************************************************)
(* util.get_ids is a generator: it is modelled by the sequence of events   *)
(* it produces when consumed to the end, each a yielded id or, last, the   *)
(* exception that ends it.  A consumer that stops early sees a prefix.     *)
(***************************************************************************)
Yield(x) == [ev |-> "yield", id |-> x]
Throw(e) == [ev |-> "raise", exc |-> e]

\* x[key] for a str key: the value, or the exception Python raises
Subscript(x, key) ==
    IF IsDict(x)
    THEN IF HasKey(x, key) THEN Return(GetKey(x, key)) ELSE Raise("KeyError")
    ELSE Raise("TypeError")

\* one generator step `yield x[key]`
YieldSubscript(x, key) ==
    LET o == Subscript(x, key)
    IN  IF Returned(o) THEN <<Yield(o.value)>> ELSE <<Throw(o.exc.type)>>

\* yield from (a['id'] for a in lst)
RECURSIVE YieldIdsFrom(_, _)
YieldIdsFrom(lst, i) ==
    IF ~IsList(lst) THEN <<Throw("TypeError")>>
    ELSE IF i > Len(lst.v) THEN <<>>
    ELSE LET e == YieldSubscript(lst.v[i], "id")
         IN  IF e[1].ev = "raise" THEN e ELSE e \o YieldIdsFrom(lst, i + 1)

\* (mutant) `yield artists[0]['id']`: only the first of the nested artists
get_ids_item_first_artist(item_type, item) ==
    IF IsStr(item) THEN <<Yield(PyStr(id_from_str(item.v)))>>
    ELSE IF ~IsDict(item) THEN <<Throw("AttributeError")>>
    ELSE IF HasKey(item, "type") /\ GetKey(item, "type") = PyStr(<<item_type>>)
         THEN YieldSubscript(item, "id")
    ELSE IF item_type = "album"
         THEN YieldSubscript(find_item("album", item), "id")
    ELSE IF item_type = "artist"
         THEN <<Head(YieldIdsFrom(find_item("artists", item), 1))>>
    ELSE IF item_type = "track"
         THEN IF HasKey(item, "track")
              THEN YieldSubscript(GetKey(item, "track"), "id")
              ELSE LET tracks == Subscript(find_item("tracks", item), "items")
                   IN  IF Raised(tracks) THEN <<Throw(tracks.exc.type)>>
                       ELSE YieldIdsFrom(tracks.value, 1)
    ELSE <<Throw("ValueError")>>

\* the body of the for loop of get_ids for one item
get_ids_item(item_type, item) ==
    IF IsStr(item) THEN <<Yield(PyStr(id_from_str(item.v)))>>
    ELSE IF ~IsDict(item) THEN <<Throw("AttributeError")>>
    ELSE IF HasKey(item, "type") /\ GetKey(item, "type") = PyStr(<<item_type>>)
         THEN YieldSubscript(item, "id")
    ELSE IF item_type = "album"
         THEN YieldSubscript(find_item("album", item), "id")
    ELSE IF item_type = "artist"
         THEN YieldIdsFrom(find_item("artists", item), 1)
    ELSE IF item_type = "track"
         THEN IF HasKey(item, "track")
              THEN YieldSubscript(GetKey(item, "track"), "id")
              ELSE LET tracks == Subscript(find_item("tracks", item), "items")
                   IN  IF Raised(tracks) THEN <<Throw(tracks.exc.type)>>
                       ELSE YieldIdsFrom(tracks.value, 1)
    ELSE <<Throw("ValueError")>>

RECURSIVE get_ids_from(_, _, _)
get_ids_from(item_type, items, i) ==
    IF i > Len(items) THEN <<>>
    ELSE LET e == get_ids_item(item_type, items[i])
         IN  IF e # <<>> /\ e[Len(e)].ev = "raise" THEN e
             ELSE e \o get_ids_from(item_type, items, i + 1)

\* util.get_ids: items is a list, or one dict standing for [dict]
get_ids(item_type, items) ==
    IF IsDict(items) THEN get_ids_from(item_type, <<items>>, 1)
    ELSE get_ids_from(item_type, items.v, 1)

\* the events of a generator that raises nowhere, and the values it yields
Raises(events) == \E i \in 1..Len(events) : events[i].ev = "raise"
FirstRaise(events) == CHOOSE i \in 1..Len(events) : events[i].ev = "raise"
Yielded(events) ==
    LET n == IF Raises(events) THEN FirstRaise(events) - 1 ELSE Len(events)
    IN  [i \in 1..n |-> events[i].id]
YieldAll(s) == [i \in 1..Len(s) |-> Yield(s[i])]

(***************************************************************************)
(* util.chunked, one chunk at a time: next_chunk consumes events until the *)
(* chunk holds n values, the source is exhausted or the source raises.     *)
(***************************************************************************)
\* (mutant) without the final `if chunk: yield chunk`
RECURSIVE next_chunk_full_only(_, _, _)
next_chunk_full_only(events, n, chunk) ==
    IF events = <<>>
    THEN [got |-> "stop", chunk |-> <<>>, rest |-> <<>>]
    ELSE IF Head(events).ev = "raise"
         THEN [got |-> Head(events).exc, chunk |-> <<>>, rest |-> <<>>]
    ELSE LET c == Append(chunk, Head(events).id)
         IN  IF Len(c) = n
             THEN [got |-> "chunk", chunk |-> c, rest |-> Tail(events)]
             ELSE next_chunk_full_only(Tail(events), n, c)

RECURSIVE next_chunk(_, _, _)
next_chunk(events, n, chunk) ==
    IF events = <<>>
    THEN IF chunk # <<>>
         THEN [got |-> "chunk", chunk |-> chunk, rest |-> <<>>]
         ELSE [got |-> "stop", chunk |-> <<>>, rest |-> <<>>]
    ELSE IF Head(events).ev = "raise"
         THEN [got |-> Head(events).exc, chunk |-> <<>>, rest |-> <<>>]
    ELSE LET c == Append(chunk, Head(events).id)
         IN  IF Len(c) = n
             THEN [got |-> "chunk", chunk |-> c, rest |-> Tail(events)]
             ELSE next_chunk(Tail(events), n, c)

\* list(chunked(seq, n)) for a sequence that raises nowhere
RECURSIVE chunked(_, _)
chunked(events, n) ==
    LET nc == next_chunk(events, n, <<>>)
    IN  IF nc.got = "chunk" THEN <<nc.chunk>> \o chunked(nc.rest, n) ELSE <<>>

\* (mutant) `tracks` is looked for before `items`
extract_list_tracks_first(item) ==
    IF IsList(item) THEN Return(item)
    ELSE IF ~IsDict(item) THEN Raise("TypeError")
    ELSE IF HasKey(item, "tracks") THEN Return(GetKey(item, "tracks"))
    ELSE IF HasKey(item, "items") THEN Return(GetKey(item, "items"))
    ELSE IF HasKey(item, "albums") THEN Return(GetKey(item, "albums"))
    ELSE IF HasKey(item, "artists") THEN Return(GetKey(item, "artists"))
    ELSE Raise("Exception")

\* util.extract_list
extract_list(item) ==
    IF IsList(item) THEN Return(item)
    ELSE IF ~IsDict(item) THEN Raise("TypeError")
    ELSE IF HasKey(item, "items") THEN Return(GetKey(item, "items"))
    ELSE IF HasKey(item, "tracks") THEN Return(GetKey(item, "tracks"))
    ELSE IF HasKey(item, "albums") THEN Return(GetKey(item, "albums"))
    ELSE IF HasKey(item, "artists") THEN Return(GetKey(item, "artists"))
    ELSE Raise("Exception")

(***************************************************************************)
(* Responses of the transport (requests.Response).  The text of a body is  *)
(* empty, text that is no JSON, or the serialisation of a JSON value;      *)
(* json() parses it back or raises ValueError.                             *)
(***************************************************************************)
EmptyText == [k |-> "empty"]
RawText(s) == [k |-> "raw", s |-> s]
JsonText(x) == [k |-> "json", v |-> x]

Response(status, text, url) ==
    [t |-> "Response", status_code |-> status, text |-> text, url |-> url]

\* response.ok: the status is no client or server error
ok(response) == response.status_code < 400

\* bool(response.text)
HasText(response) == response.text # EmptyText

\* response.json()
json(response) ==
    IF response.text.k = "json" THEN Return(response.text.v)
    ELSE Raise("ValueError")

GenericMessage == PyStr(<<"Unkown error occured">>)
TextMessage(response) == [t |-> "text", v |-> response.text]

\* response.json()['error']['message'] within try/except (ValueError, KeyError)
ErrorMessage(response) ==
    LET body == json(response)
    IN  IF Raised(body) THEN Return(TextMessage(response))
        ELSE LET err == Subscript(body.value, "error")
             IN  IF Raised(err)
                 THEN IF err.exc.type = "KeyError"
                      THEN Return(TextMessage(response)) ELSE err
                 ELSE LET msg == Subscript(err.value, "message")
                      IN  IF Raised(msg)
                          THEN IF msg.exc.type = "KeyError"
                               THEN Return(TextMessage(response)) ELSE msg
                          ELSE msg

\* SpotifyException.__init__: the exception `raise SpotifyException(...)`
\* raises, or the TypeError that escapes its constructor
SpotifyException(response) ==
    LET msg == IF HasText(response) THEN ErrorMessage(response)
               ELSE Return(GenericMessage)
    IN  IF Raised(msg) THEN msg
        ELSE [kind |-> "raise",
              exc |-> [type |-> "SpotifyException",
                       http_status |-> response.status_code,
                       msg |-> msg.value,
                       url |-> response.url]]

(***************************************************************************)
(* Greenlets.  value is the Response once the greenlet finished normally;  *)
(* it stays None while it runs and when the transport call raised.         *)
(***************************************************************************)
\* Spotify.__init__(max_retries=5): the total of the session's Retry
max_retries == 5

\* attempts, retries, last and slept are the state of the retry loop of the
\* transport call: the attempts made, the total left in its Retry object,
\* the answer that led to the latest retry and the wait that followed it.
\* They move only where the attempts of a call are followed (RetrySpec).
Greenlet(req) ==
    [req |-> req, done |-> FALSE, value |-> None, exception |-> "",
     attempts |-> 0, retries |-> max_retries, last |-> <<>>, slept |-> <<>>]

\* extract is a field name; "" stands for the falsy defaults None and False
Truthy(extract) == extract # ""

\* (mutant) the empty body is looked at before response.ok
join_one_empty_first(one_request, extract) ==
    LET response == one_request.value
    IN  IF response = None THEN Raise("AttributeError")
        ELSE IF ~HasText(response) THEN Return(None)
        ELSE IF ~ok(response) THEN SpotifyException(response)
        ELSE LET result == json(response)
             IN  IF Raised(result) THEN result
                 ELSE IF Truthy(extract)
                      THEN IF IsDict(result.value)
                           THEN Return(find_item(extract, result.value))
                           ELSE Raise("AttributeError")
                      ELSE result

\* Spotify._join_one on a finished greenlet
_join_one(one_request, extract) ==
    LET response == one_request.value
    IN  IF response = None THEN Raise("AttributeError")
        ELSE IF ~ok(response) THEN SpotifyException(response)
        ELSE IF ~HasText(response) THEN Return(None)
        ELSE LET result == json(response)
             IN  IF Raised(result) THEN result
                 ELSE IF Truthy(extract)
                      THEN IF IsDict(result.value)
                           THEN Return(find_item(extract, result.value))
                           ELSE Raise("AttributeError")
                      ELSE result

\* [x for x in lst]
Elements(x) ==
    IF IsList(x) THEN Return(x.v)
    ELSE IF IsDict(x) THEN Return([i \in 1..Len(x.v) |-> PyStr(<<x.v[i].k>>)])
    ELSE Raise("TypeError")

\* (mutant) visit the greenlets in the order they finished
JoinOrderOfCompletion(request_objects, done_order) ==
    SelectSeq(done_order,
              LAMBDA g : \E i \in 1..Len(request_objects) :
                             request_objects[i] = g)

\* the order in which _join_many visits the greenlets it joined
JoinOrder(request_objects, done_order) == request_objects

\* the for loop of Spotify._join_many over finished greenlets
RECURSIVE join_loop(_, _, _, _)
join_loop(gs, order, extract, results) ==
    IF order = <<>> THEN Return(PyList(results))
    ELSE LET response == gs[Head(order)].value
         IN  IF response = None THEN Raise("AttributeError")
             ELSE IF ~ok(response) THEN SpotifyException(response)
             ELSE IF ~HasText(response)
                  THEN join_loop(gs, Tail(order), extract, Append(results, None))
             ELSE LET jso == json(response)
                  IN  IF Raised(jso) THEN jso
                      ELSE IF Truthy(extract)
                           THEN LET lst == extract_list(jso.value)
                                    xs == IF Raised(lst) THEN lst
                                          ELSE Elements(lst.value)
                                IN  IF Raised(xs) THEN xs
                                    ELSE join_loop(gs, Tail(order), extract,
                                                   results \o xs.value)
                           ELSE join_loop(gs, Tail(order), extract,
                                          Append(results, jso.value))

\* (mutant) the loop goes through the whole collection before it raises:
\* the failure met last in dispatch order is the one raised
_join_many_last_failure(gs, request_objects, done_order, extract) ==
    LET order == JoinOrder(request_objects, done_order)
        r == join_loop(gs, order, extract, <<>>)
    IN  IF Raised(r)
        THEN join_loop(gs, [i \in 1..Len(order) |-> order[Len(order) + 1 - i]],
                       extract, <<>>)
        ELSE r

\* Spotify._join_many once gevent.joinall has returned
_join_many(gs, request_objects, done_order, extract) ==
    join_loop(gs, JoinOrder(request_objects, done_order), extract, <<>>)

(***************************************************************************)
(* Keyword arguments: a dict from names to values.                         *)
(***************************************************************************)
NoKwargs == [k \in {} |-> 0]
Get(kw, key, default) == IF key \in DOMAIN kw THEN kw[key] ELSE default
Set(kw, key, val) ==
    [k \in DOMAIN kw \cup {key} |-> IF k = key THEN val ELSE kw[k]]
Pop(kw, key) == [k \in DOMAIN kw \ {key} |-> kw[k]]

(***************************************************************************)
(* Endpoint methods and what the decorators attached to them.  The         *)
(* decorators max_limit and chunk_size take any number; the model draws    *)
(* it from 1..MaxLimit and 1..MaxChunk.                                    *)
(***************************************************************************)
Prefix == "https://api.spotify.com/v1"
DefaultLimit == 20
Timeout == 10

current_user_saved_tracks(limit) ==
    [name |-> "current_user_saved_tracks", url |-> "/me/tracks",
     parameters |-> {"limit", "offset", "market"},
     attrs |-> {"max_limit"},
     max_limit |-> limit, chunk_size |-> 0, object_type |-> ""]

tracks(size) ==
    [name |-> "tracks", url |-> "/tracks",
     parameters |-> {"tracks", "market"},
     attrs |-> {"chunk_size", "object_type"},
     max_limit |-> 0, chunk_size |-> size, object_type |-> "track"]

current_user_followed_artists(limit) ==
    [name |-> "current_user_followed_artists", url |-> "/me/following",
     parameters |-> {"limit", "after"},
     attrs |-> {"max_limit"},
     max_limit |-> limit, chunk_size |-> 0, object_type |-> ""]

me ==
    [name |-> "me", url |-> "/me",
     parameters |-> {},
     attrs |-> {},
     max_limit |-> 0, chunk_size |-> 0, object_type |-> ""]

\* Spotify._request up to the spawn: the call the greenlet will make
Request(method, url, params) ==
    [method |-> method, url |-> <<Prefix, url>>, params |-> params,
     timeout |-> Timeout, headers |-> "application/json"]

\* the call of func up to the spawn: the request, or what it raises
Endpoint(func, arg0, kwargs) ==
    IF func.name = "current_user_saved_tracks"
    THEN Return(Request("GET", func.url,
                        [limit |-> Get(kwargs, "limit", DefaultLimit),
                         offset |-> Get(kwargs, "offset", 0)]))
    ELSE IF func.name = "tracks"
    THEN LET tids == get_ids("track", arg0)
         IN  IF Raises(tids) THEN Raise(tids[FirstRaise(tids)].exc)
             ELSE Return(Request("GET", func.url, [ids |-> Yielded(tids)]))
    ELSE IF func.name = "current_user_followed_artists"
    THEN Return(Request("GET", func.url,
                        [limit |-> Get(kwargs, "limit", DefaultLimit)]))
    ELSE Return(Request("GET", func.url, NoKwargs))

\* gs(self.session.request, ...): the new greenlet joins those spawned
_request(gs, req) == Append(gs, Greenlet(req))

InFlight(gs) == Cardinality({g \in 1..Len(gs) : ~gs[g].done})

\* (mutant) gevent.spawn also for a client that has a pool
CanSpawnUnpooled == TRUE

\* (mutant) the transport call is made by the caller: one request at a time
CanSpawnAfterOthers == InFlight(greenlets) = 0

\* (mutant) a slot is never given back: the pool admits pool_size greenlets
CanSpawnNoRelease == gpool = 0 \/ Len(greenlets) < gpool

\* self._gpool.spawn waits for a free slot, gevent.spawn never waits
CanSpawn == gpool = 0 \/ InFlight(greenlets) < gpool

(***************************************************************************)
(* The API server.                                                         *)
(***************************************************************************)
Min(a, b) == IF a < b THEN a ELSE b

\* a page of the result set 0 .. serverTotal-1
Page(limit, offset) ==
    LET last == Min(offset + limit, serverTotal)
        n == IF last > offset THEN last - offset ELSE 0
    IN  PyDict(<<KV("items", PyList([i \in 1..n |-> PyInt(offset + i - 1)])),
                 KV("total", PyInt(serverTotal))>>)

TrackObject(id) == PyDict(<<KV("id", id), KV("type", PyStr(<<"track">>))>>)

ServerBody(req) ==
    IF "offset" \in DOMAIN req.params
    THEN Page(req.params.limit, req.params.offset)
    ELSE IF "ids" \in DOMAIN req.params
    THEN PyDict(<<KV("tracks",
                     PyList([i \in 1..Len(req.params.ids) |->
                                TrackObject(req.params.ids[i])]))>>)
    ELSE PyDict(<<KV("id", PyStr(<<"me">>))>>)

ErrorBody(status, message) ==
    PyDict(<<KV("error", PyDict(<<KV("status", PyInt(status)),
                                  KV("message", PyStr(<<message>>))>>))>>)

\* what a finished greenlet holds: a response, or nothing but an exception
Responses(req) ==
    { Response(200, JsonText(ServerBody(req)), req.url),
      Response(200, EmptyText, req.url),
      Response(404, JsonText(ErrorBody(404, "Not found.")), req.url),
      Response(502, EmptyText, req.url) }

TransportErrors == {"Timeout"}

(***************************************************************************)
(* The calling flow.  pc is "idle" between calls, "probe" while            *)
(* _all_with_offset waits for its probe, "offset_loop" and "chunk_loop"    *)
(* inside the dispatch loops of all(), "join" while a join waits.          *)
(***************************************************************************)
\* via and self are set by a call made through an all helper: the client
\* the helper was reached through and the client whose all() runs
Frame0 ==
    [call |-> "none", func |-> me, arg0 |-> None, kwargs |-> NoKwargs,
     unique |-> FALSE, base |-> 0, probe |-> 0, total |-> 0, limit |-> 0,
     callcount |-> 0, i |-> 0, c |-> 0, reqs |-> <<>>, items |-> <<>>,
     chunk_size |-> 0, one |-> FALSE, target |-> <<>>, extract |-> "",
     key |-> "", via |-> 0, self |-> 0,
     given |-> [func |-> me, arg0 |-> None, kwargs |-> NoKwargs]]

Ret0 ==
    [call |-> "none", outcome |-> Return(None),
     one |-> FALSE, target |-> <<>>, extract |-> "", again |-> FALSE]

Result(call, outcome) == [Ret0 EXCEPT !.call = call, !.outcome = outcome]

\* the arguments callers pass
ItemPool ==
    { PyStr(<<"a">>),
      PyStr(<<"spotify", ":", "track", ":", "a">>),
      TrackObject(PyStr(<<"b">>)),
      PyDict(<<KV("id", PyStr(<<"u">>)), KV("type", PyStr(<<"user">>))>>) }

ItemLists == UNION {[1..n -> ItemPool] : n \in 0..MaxIds}

OffsetFuncs == {current_user_saved_tracks(l) : l \in 1..MaxLimit}
ChunkFuncs == {tracks(k) : k \in 1..MaxChunk}
OtherFuncs == {current_user_followed_artists(l) : l \in 1..MaxLimit} \cup {me}

OffsetKwargs == {NoKwargs, [limit |-> 2, offset |-> 1]}
ChunkKwargs == {NoKwargs, [unique |-> TRUE], [unique |-> FALSE]}

Extracts == {"", "items"}

NoHandle == [valid |-> FALSE, one |-> FALSE, reqs |-> <<>>]

\* what __init__ stores in a client: its token and the size of its pool
Client(access_token, pool) == [access_token |-> access_token, gpool |-> pool]

\* `f.__func__.all = partial(self.all, f)` for every method with chunk_size
\* or max_limit: the helper is an attribute of the function of the class,
\* which every client shares, so it is bound to the client constructed last
Constructed(cs, client) ==
    [made |-> Append(cs.made, client), bound |-> Len(cs.made) + 1]

NoClients == [made |-> <<>>, bound |-> 0]

\* a client after __init__: gpool=False leaves no pool (size 0)
InitWith(totals, pools) ==
    /\ serverTotal \in totals
    /\ gpool \in pools
    /\ clients = Constructed(NoClients, Client("token", gpool))
    /\ greenlets = <<>>
    /\ finished = <<>>
    /\ pc = "idle"
    /\ frame = Frame0
    /\ handle = NoHandle
    /\ ret = Ret0
    /\ joins = 0

Init == InitWith(0..MaxResults, {0})

\* a call that raises: control is back at the caller with the exception
Fail(fr, outcome) ==
    /\ pc' = "idle"
    /\ frame' = fr
    /\ ret' = Result(fr.call, outcome)

\* (mutant) keep the last occurrence of each identifier
RECURSIVE unique_ids_last(_, _)
unique_ids_last(ids, seen) ==
    IF ids = <<>> THEN <<>>
    ELSE IF \E i \in 2..Len(ids) : ids[i] = Head(ids)
         THEN unique_ids_last(Tail(ids), seen)
         ELSE <<Head(ids)>> \o unique_ids_last(Tail(ids), seen)

\* seen/seen_add filter of _all_chunked: first occurrences, in order
RECURSIVE unique_ids(_, _)
unique_ids(ids, seen) ==
    IF ids = <<>> THEN <<>>
    ELSE IF Head(ids) \in seen THEN unique_ids(Tail(ids), seen)
    ELSE <<Head(ids)>> \o unique_ids(Tail(ids), seen \cup {Head(ids)})

\* (mutant) total // limit: the last, partial page is forgotten
floor_div(total, limit) == total \div limit

\* (mutant) at least one page, also for an empty result set
ceil_div_min1(total, limit) ==
    IF total = 0 THEN 1 ELSE (total + limit - 1) \div limit

\* math.ceil(total/limit) for a total >= 0 and a limit >= 1
ceil_div(total, limit) == (total + limit - 1) \div limit

\* (mutant) page whatever declares a max page size
StrategyByMaxLimit(func) ==
    IF "max_limit" \in func.attrs THEN "offset"
    ELSE IF "chunk_size" \notin func.attrs THEN "AttributeError"
    ELSE IF func.chunk_size # 0 THEN "chunk"
    ELSE "NotImplementedError"

\* which branch Spotify.all takes for func
Strategy(func) ==
    IF "offset" \in func.parameters THEN "offset"
    ELSE IF "chunk_size" \notin func.attrs THEN "AttributeError"
    ELSE IF func.chunk_size # 0 THEN "chunk"
    ELSE "NotImplementedError"

\* (mutant) a join dispatches again the requests that failed
RECURSIVE joinall_retry(_, _)
joinall_retry(gs, request_objects) ==
    IF request_objects = <<>> THEN gs
    ELSE LET g == gs[Head(request_objects)]
             rest == joinall_retry(gs, Tail(request_objects))
         IN  IF g.value # None /\ ~ok(g.value)
             THEN _request(rest, g.req) ELSE rest

\* (mutant) the wait is over as soon as a request is known to have failed
joinall_until_failure(gs, request_objects) ==
    \/ \A i \in 1..Len(request_objects) : gs[request_objects[i]].done
    \/ \E k \in 1..Len(request_objects) :
           /\ \A i \in 1..k : gs[request_objects[i]].done
           /\ IF gs[request_objects[k]].value = None THEN TRUE
              ELSE ~ok(gs[request_objects[k]].value)

\* when gevent.joinall / Greenlet.join return: every greenlet is done
joinall_returns(gs, request_objects) ==
    \A i \in 1..Len(request_objects) : gs[request_objects[i]].done

\* gevent.joinall / Greenlet.join on finished greenlets: they only wait
joinall(gs, request_objects) == gs

\* Spotify._all_with_offset up to the wait for its probe request
all_with_offset_probe(fr) ==
    LET kwargs == Set(fr.kwargs, "limit", 1)
        first == Endpoint(fr.func, fr.arg0, kwargs)
    IN  /\ CanSpawn
        /\ greenlets' = _request(greenlets, first.value)
        /\ frame' = [fr EXCEPT !.kwargs = kwargs, !.probe = Len(greenlets) + 1]
        /\ pc' = "probe"
        /\ UNCHANGED ret

\* Spotify._all_chunked up to its dispatch loop
all_chunked_items(fr) ==
    LET unique == Get(fr.kwargs, "unique", FALSE)
        kwargs == Pop(fr.kwargs, "unique")
        items == get_ids(fr.func.object_type, fr.arg0)
        chunk_size == IF Get(kwargs, "chunk_size", 0) # 0
                      THEN kwargs["chunk_size"] ELSE fr.func.chunk_size
        fr1 == [fr EXCEPT !.kwargs = kwargs, !.unique = unique,
                          !.chunk_size = chunk_size]
    IN  /\ IF unique /\ Raises(items)
           THEN Fail(fr1, Raise(items[FirstRaise(items)].exc))
           ELSE /\ frame' = [fr1 EXCEPT !.items =
                                IF unique
                                THEN YieldAll(unique_ids(Yielded(items), {}))
                                ELSE items]
                /\ pc' = "chunk_loop"
                /\ UNCHANGED ret
        /\ UNCHANGED greenlets

\* the calls of all() whose expansion is followed
AllCalls ==
    [func : OffsetFuncs, arg0 : {None}, kwargs : OffsetKwargs]
    \cup [func : ChunkFuncs, arg0 : {PyList(l) : l \in ItemLists},
          kwargs : ChunkKwargs]
    \cup [func : OtherFuncs, arg0 : {None}, kwargs : {NoKwargs}]

\* the calls of all() whose requests are followed to their join
ShortLists ==
    UNION {[1..n -> {PyStr(<<"a">>), TrackObject(PyStr(<<"b">>)),
                     PyDict(<<KV("id", PyStr(<<"u">>)),
                              KV("type", PyStr(<<"user">>))>>)}]
           : n \in 0..MaxResults}
JoinedCalls ==
    [func : OffsetFuncs, arg0 : {None}, kwargs : OffsetKwargs]
    \cup [func : {tracks(1)}, arg0 : {PyList(l) : l \in ShortLists},
          kwargs : {NoKwargs}]
    \cup [func : {me}, arg0 : {None}, kwargs : {NoKwargs}]

\* Spotify.all up to its first wait or dispatch
all(calls) ==
    \E call \in calls :
        /\ pc = "idle"
        /\ ret.call = "none"
        /\ LET fr == [Frame0 EXCEPT !.call = "all", !.func = call.func,
                                    !.arg0 = call.arg0,
                                    !.kwargs = call.kwargs,
                                    !.base = Len(greenlets),
                                    !.given = call]
               strategy == Strategy(call.func)
           IN  IF strategy = "offset" THEN all_with_offset_probe(fr)
               ELSE IF strategy = "chunk" THEN all_chunked_items(fr)
               ELSE Fail(fr, Raise(strategy)) /\ UNCHANGED greenlets
        /\ UNCHANGED <<setup, finished, handle, joins>>

\* (mutant) the probe stands for page 0: the loop starts at the second page
offset_start_after_probe(fr, total) ==
    [fr EXCEPT !.total = total,
               !.limit = fr.func.max_limit,
               !.kwargs = Set(fr.kwargs, "limit", fr.func.max_limit),
               !.callcount = ceil_div(total, fr.func.max_limit),
               !.i = fr.func.max_limit,
               !.c = IF total > 0 THEN 1 ELSE 0,
               !.reqs = IF total > 0 THEN <<fr.probe>> ELSE <<>>]

\* _all_with_offset between the probe and the loop: total is known
offset_start(fr, total) ==
    [fr EXCEPT !.total = total,
               !.limit = fr.func.max_limit,
               !.kwargs = Set(fr.kwargs, "limit", fr.func.max_limit),
               !.callcount = ceil_div(total, fr.func.max_limit),
               !.i = 0, !.c = 0, !.reqs = <<>>]

\* (mutant) `i += 1`: the next page starts one item after the last
offset_step_by_one(fr) ==
    [fr EXCEPT !.kwargs = Set(fr.kwargs, "offset", fr.i),
               !.i = fr.i + 1,
               !.c = fr.c + 1]

\* the body of `for c in range(callcount)` up to the call of func
offset_step(fr) ==
    [fr EXCEPT !.kwargs = Set(fr.kwargs, "offset", fr.i),
               !.i = fr.i + fr.limit,
               !.c = fr.c + 1]

\* the kwargs of the calls the loop makes from fr on
RECURSIVE offset_kwargs(_)
offset_kwargs(fr) ==
    IF fr.c >= fr.callcount THEN <<>>
    ELSE <<offset_step(fr).kwargs>> \o offset_kwargs(offset_step(fr))

\* _all_with_offset from the probe's result to the dispatch loop
ProbeJoined ==
    /\ pc = "probe"
    /\ greenlets[frame.probe].done
    /\ LET first == _join_one(greenlets[frame.probe], "")
       IN  IF Raised(first) THEN Fail(frame, first)
           ELSE IF ~IsDict(first.value) THEN Fail(frame, Raise("TypeError"))
           ELSE LET total == find_item("total", first.value)
                IN  IF "max_limit" \notin frame.func.attrs
                    THEN Fail(frame, Raise("AttributeError"))
                    ELSE IF total.t # "int"
                    THEN Fail(frame, Raise("TypeError"))
                    ELSE /\ frame' = offset_start(frame, total.v)
                         /\ pc' = "offset_loop"
                         /\ UNCHANGED ret
    /\ UNCHANGED <<setup, greenlets, finished, handle, joins>>

\* one iteration of `for c in range(callcount)`
OffsetDispatch ==
    /\ pc = "offset_loop"
    /\ frame.c < frame.callcount
    /\ CanSpawn
    /\ LET fr == offset_step(frame)
           req == Endpoint(fr.func, fr.arg0, fr.kwargs)
       IN  /\ greenlets' = _request(greenlets, req.value)
           /\ frame' = [fr EXCEPT !.reqs = Append(@, Len(greenlets) + 1)]
    /\ UNCHANGED <<setup, finished, pc, handle, ret, joins>>

\* one iteration of `for chunk in chunked(items, chunk_size)`
ChunkDispatch ==
    /\ pc = "chunk_loop"
    /\ LET nc == next_chunk(frame.items, frame.chunk_size, <<>>)
           req == Endpoint(frame.func, PyList(nc.chunk), frame.kwargs)
       IN  /\ nc.got = "chunk"
           /\ IF Raised(req)
              THEN Fail(frame, req) /\ UNCHANGED greenlets
              ELSE /\ CanSpawn
                   /\ greenlets' = _request(greenlets, req.value)
                   /\ frame' = [frame EXCEPT
                                  !.arg0 = PyList(nc.chunk),
                                  !.items = nc.rest,
                                  !.reqs = Append(@, Len(greenlets) + 1)]
                   /\ UNCHANGED <<pc, ret>>
    /\ UNCHANGED <<setup, finished, handle, joins>>

\* the source of the chunks raises while the loop pulls the next chunk
ChunkRaise ==
    /\ pc = "chunk_loop"
    /\ LET nc == next_chunk(frame.items, frame.chunk_size, <<>>)
       IN  /\ nc.got \notin {"chunk", "stop"}
           /\ Fail(frame, Raise(nc.got))
    /\ UNCHANGED <<setup, greenlets, finished, handle, joins>>

\* the loop is over: return GletList(result, self._join_many)
AllReturn ==
    /\ \/ pc = "offset_loop" /\ frame.c = frame.callcount
       \/ /\ pc = "chunk_loop"
          /\ next_chunk(frame.items, frame.chunk_size, <<>>).got = "stop"
    /\ pc' = "idle"
    /\ ret' = Result("all", Return(frame.reqs))
    /\ handle' = [valid |-> TRUE, one |-> FALSE, reqs |-> frame.reqs]
    /\ UNCHANGED <<setup, greenlets, finished, frame, joins>>

\* a plain endpoint call: one request, the caller keeps the handle
EndpointCall ==
    \E func \in {current_user_saved_tracks(1), me} :
        /\ pc = "idle"
        /\ ret.call = "none"
        /\ CanSpawn
        /\ greenlets' = _request(greenlets,
                                 Endpoint(func, None, NoKwargs).value)
        /\ frame' = [Frame0 EXCEPT !.call = "request", !.func = func]
        /\ ret' = Result("request", Return(<<Len(greenlets) + 1>>))
        /\ handle' = [valid |-> TRUE, one |-> TRUE,
                      reqs |-> <<Len(greenlets) + 1>>]
        /\ UNCHANGED <<setup, finished, pc, joins>>

\* Spotify.join(request_objects, extract) up to the wait
join ==
    \E extract \in Extracts :
        /\ pc = "idle"
        /\ handle.valid
        /\ joins < MaxJoins
        /\ joins' = joins + 1
        /\ pc' = "join"
        /\ frame' = [Frame0 EXCEPT !.call = "join", !.one = handle.one,
                                   !.target = handle.reqs,
                                   !.extract = extract]
        /\ UNCHANGED <<setup, greenlets, finished, handle, ret>>

\* every awaited greenlet is done: _join_one / _join_many finish
JoinReturn ==
    /\ pc = "join"
    /\ joinall_returns(greenlets, frame.target)
    /\ pc' = "idle"
    /\ greenlets' = joinall(greenlets, frame.target)
    /\ ret' = [call |-> "join",
               outcome |-> IF frame.one
                           THEN _join_one(greenlets[frame.target[1]],
                                          frame.extract)
                           ELSE _join_many(greenlets, frame.target, finished,
                                           frame.extract),
               one |-> frame.one, target |-> frame.target,
               extract |-> frame.extract,
               again |-> /\ ret.call = "join"
                         /\ ret.target = frame.target
                         /\ ret.extract = frame.extract]
    /\ UNCHANGED <<setup, finished, frame, handle, joins>>

\* the transport call of greenlet g returns a response
Respond(g) ==
    /\ ~greenlets[g].done
    /\ \E response \in Responses(greenlets[g].req) :
           greenlets' = [greenlets EXCEPT ![g].done = TRUE,
                                          ![g].value = response]
    /\ finished' = Append(finished, g)
    /\ UNCHANGED <<setup, pc, frame, handle, ret, joins>>

\* the transport call of greenlet g raises: the greenlet dies, value None
TransportFail(g) ==
    /\ ~greenlets[g].done
    /\ \E e \in TransportErrors :
           greenlets' = [greenlets EXCEPT ![g].done = TRUE,
                                          ![g].exception = e]
    /\ finished' = Append(finished, g)
    /\ UNCHANGED <<setup, pc, frame, handle, ret, joins>>

Resolve == \E g \in 1..Len(greenlets) : Respond(g) \/ TransportFail(g)

\* the probe of an expansion resolves
ProbeResolve ==
    /\ pc = "probe"
    /\ Respond(frame.probe) \/ TransportFail(frame.probe)

(***************************************************************************)
(* Spec: the caller makes one dispatching call and joins what it holds,    *)
(* while the requests resolve in any order.                                *)
(***************************************************************************)
Next ==
    \/ all(JoinedCalls)
    \/ ProbeJoined
    \/ OffsetDispatch
    \/ ChunkDispatch
    \/ ChunkRaise
    \/ AllReturn
    \/ EndpointCall
    \/ join
    \/ JoinReturn
    \/ Resolve

Spec == Init /\ [][Next]_vars

(***************************************************************************)
(* ExpandSpec: what all() dispatches, for every call in AllCalls.  Only    *)
(* the probe is followed to its end: an expansion reads no other response. *)
(***************************************************************************)
ExpandInit == InitWith(0..MaxTotal, {0})

ExpandNext ==
    \/ all(AllCalls)
    \/ ProbeResolve
    \/ ProbeJoined
    \/ OffsetDispatch
    \/ ChunkDispatch
    \/ ChunkRaise
    \/ AllReturn

ExpandSpec == ExpandInit /\ [][ExpandNext]_vars

(***************************************************************************)
(* JoinOneSpec: one endpoint call whose request resolves in any way the    *)
(* transport can end it, joined as a single handle.  The bodies of failed  *)
(* responses take every shape SpotifyException.__init__ tells apart.       *)
(***************************************************************************)
ErrorStatuses == {400, 401, 429, 500}

ErrorTexts ==
    << EmptyText,
       RawText("Bad Gateway"),
       JsonText(ErrorBody(401, "The access token expired")),
       JsonText(PyDict(<<KV("detail", PyStr(<<"no error key">>))>>)),
       JsonText(PyDict(<<KV("error", PyDict(<<KV("status", PyInt(401))>>))>>)),
       JsonText(PyDict(<<KV("error", PyStr(<<"invalid_token">>))>>)),
       JsonText(PyList(<<PyStr(<<"invalid_token">>)>>)) >>

\* greenlet g finishes with the given response
Finish(g, response) ==
    /\ ~greenlets[g].done
    /\ greenlets' = [greenlets EXCEPT ![g].done = TRUE, ![g].value = response]
    /\ finished' = Append(finished, g)
    /\ UNCHANGED <<setup, pc, frame, handle, ret, joins>>

\* the transport call of greenlet g returns any response, or raises
ResolveAny ==
    \E g \in 1..Len(greenlets) :
        \/ \E response \in Responses(greenlets[g].req) : Finish(g, response)
        \/ \E status \in ErrorStatuses, i \in 1..Len(ErrorTexts) :
               Finish(g, Response(status, ErrorTexts[i], greenlets[g].req.url))
        \/ TransportFail(g)

JoinOneNext ==
    \/ EndpointCall
    \/ ResolveAny
    \/ join
    \/ JoinReturn

JoinOneSpec == Init /\ [][JoinOneNext]_vars

(***************************************************************************)
(* PoolSpec: the behaviours of Spec for clients with and without a pool:   *)
(* gpool=True makes self._gpool a Pool of pool_size slots.                 *)
(***************************************************************************)
PoolInit == InitWith(0..MaxResults, 0..MaxPool)

PoolSpec == PoolInit /\ [][Next]_vars

(***************************************************************************)
(* PagesSpec: the expansion of a paginated call against a server that      *)
(* answers every request with the page asked for, out of a stable result   *)
(* set, joined over every order of completion.                             *)
(***************************************************************************)
PageCalls == [func : OffsetFuncs, arg0 : {None}, kwargs : OffsetKwargs]

\* the transport call of a greenlet returns the page its request asks for
RespondPage ==
    \E g \in 1..Len(greenlets) :
        Finish(g, Response(200, JsonText(ServerBody(greenlets[g].req)),
                           greenlets[g].req.url))

PagesInit == InitWith(0..MaxTotal, {0})

PagesNext ==
    \/ all(PageCalls)
    \/ RespondPage
    \/ ProbeJoined
    \/ OffsetDispatch
    \/ AllReturn
    \/ join
    \/ JoinReturn

PagesSpec == PagesInit /\ [][PagesNext]_vars

(***************************************************************************)
(* The retry loop of the transport: default_session mounts an adapter      *)
(* whose Retry object is SpotiRetry(total=max_retries, backoff_factor=1.5, *)
(* status_forcelist=[429]+list(range(500, 600)), raise_on_status=False,    *)
(* respect_retry_after_header=True).  The loop is urllib3's urlopen: an    *)
(* answer that is_retry accepts is counted by increment and, unless the    *)
(* total is exhausted, followed by a sleep and a new attempt.              *)
(***************************************************************************)
status_forcelist == {429} \cup (500..599)
method_whitelist == {"GET", "POST", "PUT", "DELETE"}

\* the statuses urllib3 retries when they carry a Retry-After header and
\* respect_retry_after_header is set
RETRY_AFTER_STATUS_CODES == {413, 429, 503}

\* the answer of the server to one attempt: a status with the Retry-After
\* header it carries (<<>> when absent), or a failure of the connection
Answer(status, retry_after) ==
    [kind |-> "response", status |-> status, retry_after |-> retry_after,
     error |-> ""]
Failure(e) ==
    [kind |-> "error", status |-> 0, retry_after |-> <<>>, error |-> e]

Answers ==
    {Answer(status, h) : status \in {200, 404, 413, 429, 502},
                         h \in {<<>>, <<0>>, <<1>>, <<2>>}}
    \cup {Failure(e) : e \in TransportErrors}

\* (mutant) the server's hint is taken as it is
parse_retry_after_plain(seconds) == seconds

\* SpotiRetry.parse_retry_after on the seconds the header gives
parse_retry_after(seconds) ==
    IF seconds # 0 THEN seconds * 2 ELSE seconds

\* Retry.is_retry under the configuration of default_session
is_retry(method, status_code, has_retry_after, total) ==
    IF method \notin method_whitelist THEN FALSE
    ELSE IF status_code \in status_forcelist THEN TRUE
    ELSE /\ total # 0
         /\ has_retry_after
         /\ status_code \in RETRY_AFTER_STATUS_CODES

\* Retry.sleep: the wait parse_retry_after gives when the answer carries a
\* Retry-After and the wait is not zero, else the backoff for the number of
\* consecutive errors
sleep(answer, errors) ==
    IF /\ answer.kind = "response"
       /\ answer.retry_after # <<>>
       /\ parse_retry_after(answer.retry_after[1]) # 0
    THEN [kind |-> "retry_after",
          seconds |-> parse_retry_after(answer.retry_after[1])]
    ELSE [kind |-> "backoff", errors |-> errors]

\* the response the transport hands over for the last answer
FinalResponse(req, answer) ==
    Response(answer.status,
             IF answer.status = 200 THEN JsonText(ServerBody(req))
             ELSE EmptyText,
             req.url)

\* one attempt of the transport call of greenlet g
Attempt(g) ==
    /\ ~greenlets[g].done
    /\ \E answer \in Answers :
         LET gl == greenlets[g]
             n == gl.attempts + 1
             retry == IF answer.kind = "error" THEN TRUE
                      ELSE is_retry(gl.req.method, answer.status,
                                    answer.retry_after # <<>>, gl.retries)
             exhausted == gl.retries - 1 < 0
         IN  IF retry /\ ~exhausted
             THEN /\ greenlets' =
                       [greenlets EXCEPT
                          ![g].attempts = n,
                          ![g].retries = gl.retries - 1,
                          ![g].last = <<answer>>,
                          ![g].slept = <<sleep(answer, n)>>]
                  /\ UNCHANGED finished
             ELSE /\ greenlets' =
                       [greenlets EXCEPT
                          ![g].attempts = n,
                          ![g].done = TRUE,
                          ![g].value = IF answer.kind = "error" THEN None
                                       ELSE FinalResponse(gl.req, answer),
                          ![g].exception = answer.error]
                  /\ finished' = Append(finished, g)
    /\ UNCHANGED <<setup, pc, frame, handle, ret, joins>>

(***************************************************************************)
(* RetrySpec: one endpoint call whose transport call is followed attempt   *)
(* by attempt, joined as a single handle.                                  *)
(***************************************************************************)
Attempts == \E g \in 1..Len(greenlets) : Attempt(g)

RetryNext ==
    \/ EndpointCall
    \/ Attempts
    \/ join
    \/ JoinReturn

RetrySpec == Init /\ [][RetryNext]_vars

(***************************************************************************)
(* UtilSpec: the caller applies one function of util.py to an argument.    *)
(* frame.arg0 is the argument, frame.key the key or item type that goes    *)
(* with it, ret the outcome.                                               *)
(***************************************************************************)
Ids == {"a", "b", "c"}
Forms == {"id", "uri", "playlist_uri", "href", "url", "share_url"}

\* the references to the resource with id x
Reference(form, x) ==
    IF form = "id" THEN <<x>>
    ELSE IF form = "uri" THEN <<"spotify", ":", "track", ":", x>>
    ELSE IF form = "playlist_uri"
    THEN <<"spotify", ":", "user", ":", "u", ":", "playlist", ":", x>>
    ELSE IF form = "href"
    THEN <<"http", "s", ":", "/", "/", "api.spotify.com", "/", "v1", "/",
           "tracks", "/", x>>
    ELSE IF form = "url"
    THEN <<"http", ":", "/", "/", "open.spotify.com", "/", "track", "/", x>>
    ELSE <<"http", "s", ":", "/", "/", "open.spotify.com", "/", "track", "/",
           x, "?", "si=1">>

\* a function of util.py is called and returns or raises at once
UtilCall(name, arg0, key, outcome) ==
    /\ frame' = [Frame0 EXCEPT !.call = name, !.arg0 = arg0, !.key = key]
    /\ ret' = Result(name, outcome)
    /\ UNCHANGED <<setup, greenlets, finished, pc, handle, joins>>

call_id_from_str ==
    /\ pc = "idle"
    /\ ret.call = "none"
    /\ \E form \in Forms, x \in Ids :
           UtilCall("id_from_str", PyStr(Reference(form, x)), form,
                    Return(PyStr(id_from_str(Reference(form, x)))))

\* the items callers pass to get_ids: an id, a URI, a track, a saved track
\* (a track under `track`), an album with its artists and tracks, a saved
\* album (an album under `album`), a playlist without tracks
IdOnly(id) == PyDict(<<KV("id", PyStr(<<id>>))>>)
TypedObject(id, type) ==
    PyDict(<<KV("id", PyStr(<<id>>)), KV("type", PyStr(<<type>>))>>)
AlbumObject ==
    PyDict(<<KV("id", PyStr(<<"e">>)),
             KV("type", PyStr(<<"album">>)),
             KV("artists", PyList(<<IdOnly("f"), IdOnly("g")>>)),
             KV("tracks", PyDict(<<KV("items",
                                      PyList(<<IdOnly("h"), IdOnly("i")>>)),
                                   KV("total", PyInt(2))>>))>>)

IdItems ==
    << PyStr(<<"a">>),
       PyStr(<<"spotify", ":", "track", ":", "b">>),
       TypedObject("c", "track"),
       PyDict(<<KV("added_at", PyStr(<<"t">>)),
                KV("track", TypedObject("d", "track"))>>),
       AlbumObject,
       PyDict(<<KV("added_at", PyStr(<<"t">>)), KV("album", AlbumObject)>>),
       TypedObject("p", "playlist") >>

ItemTypes == {"track", "album", "artist", "playlist"}

\* list(get_ids(item_type, items))
list_get_ids(item_type, items) ==
    LET events == get_ids(item_type, items)
    IN  IF Raises(events) THEN Raise(events[FirstRaise(events)].exc)
        ELSE Return(PyList(Yielded(events)))

call_get_ids ==
    /\ pc = "idle"
    /\ ret.call = "none"
    /\ \E item_type \in ItemTypes :
        \/ \E n \in 0..MaxItems : \E picks \in [1..n -> 1..Len(IdItems)] :
               LET items == PyList([i \in 1..n |-> IdItems[picks[i]]])
               IN  UtilCall("get_ids", items, item_type,
                            list_get_ids(item_type, items))
        \/ \E k \in 3..Len(IdItems) :
               UtilCall("get_ids", IdItems[k], item_type,
                        list_get_ids(item_type, IdItems[k]))

\* the mappings callers pass to find_item: an innermost mapping under
\* wrappers, each wrapper holding one more field before the wrapped mapping
Innermost ==
    << PyDict(<<KV("items", PyStr(<<"found me">>))>>),
       PyDict(<<KV("items", None)>>),
       PyDict(<<KV("items", PyDict(<<KV("name", PyStr(<<"s">>))>>))>>),
       PyDict(<<KV("name", PyStr(<<"s">>))>>),
       PyDict(<<KV("list", PyList(<<PyDict(<<KV("items",
                                              PyStr(<<"in a list">>))>>)>>))>>)
    >>

Siblings ==
    << <<>>,
       <<KV("href", PyStr(<<"h">>))>>,
       <<KV("other", PyDict(<<KV("href", PyStr(<<"h">>))>>))>>,
       <<KV("other", PyDict(<<KV("items", None)>>))>>,
       <<KV("items", PyStr(<<"on top">>))>> >>

RECURSIVE Nested(_, _)
Nested(kinds, inner) ==
    IF kinds = <<>> THEN Innermost[inner]
    ELSE PyDict(Siblings[Head(kinds)]
                \o <<KV("wrap", Nested(Tail(kinds), inner))>>)

Keys == {"items", "name", "missing"}

call_find_item ==
    /\ pc = "idle"
    /\ ret.call = "none"
    /\ \E n \in 0..MaxDepth : \E kinds \in [1..n -> 1..Len(Siblings)] :
        \E inner \in 1..Len(Innermost), key \in Keys :
            UtilCall("find_item", Nested(kinds, inner), key,
                     Return(find_item(key, Nested(kinds, inner))))

UtilNext ==
    \/ call_id_from_str
    \/ call_get_ids
    \/ call_find_item

\* no request is made: the server plays no part
UtilInit == InitWith({0}, {0})

UtilSpec == UtilInit /\ [][UtilNext]_vars

(***************************************************************************)
(* BodiesSpec: a collection of requests that all get an ok response, with  *)
(* a body of any of the shapes extract_list and _join_many tell apart,     *)
(* joined with and without extract over every order of completion.         *)
(***************************************************************************)
IntList(ns) == PyList([i \in 1..Len(ns) |-> PyInt(ns[i])])

Bodies ==
    << EmptyText,
       JsonText(IntList(<<1, 2>>)),
       JsonText(PyDict(<<KV("items", IntList(<<3>>)),
                         KV("total", PyInt(1))>>)),
       JsonText(PyDict(<<KV("tracks", IntList(<<4>>)),
                         KV("items", IntList(<<5, 6>>))>>)),
       JsonText(PyDict(<<KV("albums", IntList(<<7>>)),
                         KV("tracks", IntList(<<8>>))>>)),
       JsonText(PyDict(<<KV("artists", IntList(<<9>>)),
                         KV("albums", IntList(<<>>))>>)),
       JsonText(PyDict(<<KV("artists", IntList(<<10, 11>>))>>)),
       JsonText(PyDict(<<KV("tracks",
                            PyDict(<<KV("items", IntList(<<12>>))>>))>>)),
       JsonText(PyDict(<<KV("id", PyStr(<<"me">>))>>)),
       JsonText(PyInt(7)) >>

\* sp.all(sp.tracks, ids, chunk_size=1): one request per id
BodyCalls ==
    [func : {tracks(1)},
     arg0 : {PyList([i \in 1..n |-> PyStr(<<"a">>)]) : n \in 0..MaxResults},
     kwargs : {NoKwargs}]

\* the transport call of a greenlet returns 200 with one of the bodies
RespondBody ==
    \E g \in 1..Len(greenlets), b \in 1..Len(Bodies) :
        Finish(g, Response(200, Bodies[b], greenlets[g].req.url))

BodiesInit == InitWith({0}, {0})

BodiesNext ==
    \/ all(BodyCalls)
    \/ ChunkDispatch
    \/ AllReturn
    \/ RespondBody
    \/ join
    \/ JoinReturn

BodiesSpec == BodiesInit /\ [][BodiesNext]_vars

(***************************************************************************)
(* LiveSpec: a client with a pool of 1..MaxPool slots whose caller makes   *)
(* one dispatching call, an expansion into MaxPool + 1 page or chunk       *)
(* requests among them, and joins what it holds.  Fairness: the transport  *)
(* call of every greenlet ends (requests gives each call a timeout and the *)
(* session's Retry a total), and the calling flow goes on whenever it can: *)
(* a spawn into the pool goes on once a slot is free, a join once every    *)
(* greenlet it waits for is done.  What the caller calls next is its own   *)
(* choice and under no fairness.                                           *)
(***************************************************************************)
MostRequests == MaxPool + 2

LiveCalls ==
    [func : {current_user_saved_tracks(1)}, arg0 : {None}, kwargs : {NoKwargs}]
    \cup [func : {tracks(1)},
          arg0 : {PyList([i \in 1..(MaxPool + 1) |-> PyStr(<<"a">>)])},
          kwargs : {NoKwargs}]

\* the transport call of greenlet g ends: with the answer of the API or
\* with an exception
Ends(g) ==
    /\ g <= Len(greenlets)
    /\ \/ Finish(g, Response(200, JsonText(ServerBody(greenlets[g].req)),
                             greenlets[g].req.url))
       \/ TransportFail(g)

LiveResolve == \E g \in 1..MostRequests : Ends(g)

LiveInit == InitWith({MaxPool + 1}, 1..MaxPool)

LiveNext ==
    \/ all(LiveCalls)
    \/ ProbeJoined
    \/ OffsetDispatch
    \/ ChunkDispatch
    \/ AllReturn
    \/ EndpointCall
    \/ join
    \/ JoinReturn
    \/ LiveResolve

LiveSpec ==
    /\ LiveInit
    /\ [][LiveNext]_vars
    /\ \A g \in 1..MostRequests : WF_vars(Ends(g))
    /\ WF_vars(ProbeJoined)
    /\ WF_vars(OffsetDispatch)
    /\ WF_vars(ChunkDispatch)
    /\ WF_vars(AllReturn)
    /\ WF_vars(JoinReturn)

(***************************************************************************)
(* ClientsSpec: clients are constructed one after another, then the all    *)
(* helper of a method is called through one of them.  From there on gpool  *)
(* is the pool of the client whose all() runs.  Only the probe of an       *)
(* expansion is followed to its end.                                       *)
(***************************************************************************)
Tokens == {"tokenA", "tokenB"}

\* Spotify(access_token, pool_size=pool, gpool=pool > 0)
__init__ ==
    \E access_token \in Tokens, pool \in 0..MaxPool :
        /\ pc = "idle"
        /\ ret.call = "none"
        /\ Len(clients.made) < MaxClients
        /\ clients' = Constructed(clients, Client(access_token, pool))
        /\ UNCHANGED <<serverTotal, gpool, greenlets, finished, pc, frame,
                       handle, ret, joins>>

HelperCalls ==
    [func : {current_user_saved_tracks(1)}, arg0 : {None}, kwargs : {NoKwargs}]
    \cup [func : {tracks(1)},
          arg0 : {PyList([i \in 1..n |-> PyStr(<<"a">>)])
                  : n \in 1..MaxResults},
          kwargs : {NoKwargs}]

\* x.<func>.all(arg0, **kwargs): the attribute all is looked up on the
\* function of the class and is partial(self.all, f) of the client it is
\* bound to; frame.via is x and frame.self the client whose all() runs
helper_all ==
    \E x \in 1..Len(clients.made), call \in HelperCalls :
        /\ pc = "idle"
        /\ ret.call = "none"
        /\ LET fr == [Frame0 EXCEPT !.call = "all", !.func = call.func,
                                    !.arg0 = call.arg0,
                                    !.kwargs = call.kwargs,
                                    !.base = Len(greenlets),
                                    !.given = call,
                                    !.via = x,
                                    !.self = clients.bound]
               strategy == Strategy(call.func)
           IN  IF strategy = "offset" THEN all_with_offset_probe(fr)
               ELSE IF strategy = "chunk" THEN all_chunked_items(fr)
               ELSE Fail(fr, Raise(strategy)) /\ UNCHANGED greenlets
        /\ gpool' = clients.made[clients.bound].gpool
        /\ UNCHANGED <<clients, serverTotal, finished, handle, joins>>

ClientsInit ==
    /\ serverTotal \in 0..MaxResults
    /\ gpool = 0
    /\ clients = NoClients
    /\ greenlets = <<>>
    /\ finished = <<>>
    /\ pc = "idle"
    /\ frame = Frame0
    /\ handle = NoHandle
    /\ ret = Ret0
    /\ joins = 0

ClientsNext ==
    \/ __init__
    \/ helper_all
    \/ ProbeResolve
    \/ ProbeJoined
    \/ OffsetDispatch
    \/ ChunkDispatch
    \/ AllReturn

ClientsSpec == ClientsInit /\ [][ClientsNext]_vars

(***************************************************************************)
(* Properties.                                                             *)
(***************************************************************************)
Range(f) == {f[i] : i \in DOMAIN f}

RECURSIVE Flatten(_)
Flatten(ss) == IF ss = <<>> THEN <<>> ELSE Head(ss) \o Flatten(Tail(ss))

FirstIndex(seq, x) == CHOOSE i \in 1..Len(seq) :
    seq[i] = x /\ \A j \in 1..(i - 1) : seq[j] # x

\* all() has just returned a collection built by the given strategy
AllReturned(strategy) ==
    /\ frame.call = "all"
    /\ ret.call = "all"
    /\ Returned(ret.outcome)
    /\ Strategy(frame.func) = strategy

\* all() has just raised
AllRaised ==
    /\ frame.call = "all"
    /\ ret.call = "all"
    /\ Raised(ret.outcome)

\* the last join was a join of a collection / of a single handle
JoinedMany == ret.call = "join" /\ ~ret.one
JoinedOne == ret.call = "join" /\ ret.one
Members == [i \in 1..Len(ret.target) |-> greenlets[ret.target[i]]]

HasResponse(g) == g.done /\ g.value # None
OkJson(g) == HasResponse(g) /\ ok(g.value) /\ g.value.text.k = "json"
Body(g) == g.value.text.v
ItemsShaped(g) ==
    /\ OkJson(g)
    /\ IsDict(Body(g))
    /\ HasKey(Body(g), "items")
    /\ IsList(GetKey(Body(g), "items"))

\* position of greenlet g in the order of completion
FinishedAt(g) == CHOOSE i \in 1..Len(finished) : finished[i] = g

\* C1: a joined collection yields its results in dispatch order, whatever
\* the order of completion: without extract the decoded bodies, one per
\* request; with extract over bodies {items: [...]} the concatenation of
\* the items lists.
C1_JoinInDispatchOrder ==
    JoinedMany =>
        LET m == Members
        IN  /\ (~Truthy(ret.extract) /\ \A i \in DOMAIN m : OkJson(m[i]))
               => ret.outcome = Return(PyList([i \in DOMAIN m |-> Body(m[i])]))
            /\ (Truthy(ret.extract) /\ \A i \in DOMAIN m : ItemsShaped(m[i]))
               => ret.outcome =
                    Return(PyList(Flatten([i \in DOMAIN m |->
                                     GetKey(Body(m[i]), "items").v])))

\* two members with items, the second finished first, joined with extract
C1_Witness ==
    /\ JoinedMany
    /\ Truthy(ret.extract)
    /\ Len(ret.target) = 2
    /\ \A i \in 1..2 : ItemsShaped(Members[i])
    /\ \A i \in 1..2 : GetKey(Body(Members[i]), "items").v # <<>>
    /\ FinishedAt(ret.target[2]) < FinishedAt(ret.target[1])
    /\ Returned(ret.outcome)

NotOk(g) == HasResponse(g) /\ ~ok(g.value)

\* C2: joining a collection in which exactly one response is not ok raises
\* SpotifyException with that response's status and message, whatever the
\* other requests' outcomes and positions.
C2_OneFailureRaisesApiError ==
    JoinedMany =>
        \A i \in DOMAIN Members :
            (NotOk(Members[i])
             /\ \A j \in DOMAIN Members \ {i} : ~NotOk(Members[j]))
            => /\ Raised(ret.outcome)
               /\ ret.outcome.exc.type = "SpotifyException"
               /\ ret.outcome.exc.http_status = Members[i].value.status_code
               /\ ret.outcome.exc.msg =
                    IF HasText(Members[i].value)
                    THEN GetKey(GetKey(Body(Members[i]), "error"), "message")
                    ELSE GenericMessage

\* C3: the offset strategy returns ceil(T/L) page requests, the i-th with
\* limit L and offset i*L whatever limit/offset the caller passed; the
\* ranges are disjoint and cover 0..T-1.  T=95, L=50: offsets 0 and 50.
C3_OffsetPages ==
    /\ AllReturned("offset") =>
         LET T == frame.total
             L == frame.func.max_limit
             reqs == ret.outcome.value
             P(i) == greenlets[reqs[i]].req.params
         IN  /\ T = serverTotal
             /\ Len(reqs) * L >= T
             /\ (Len(reqs) - 1) * L < T
             /\ \A i \in 1..Len(reqs) :
                    P(i).limit = L /\ P(i).offset = (i - 1) * L
             /\ \A x \in 0..(T - 1) :
                    Cardinality({i \in 1..Len(reqs) :
                        P(i).offset <= x /\ x < P(i).offset + P(i).limit}) = 1
    /\ offset_kwargs(offset_start(
           [Frame0 EXCEPT !.func = current_user_saved_tracks(50)], 95))
       = << [limit |-> 50, offset |-> 0], [limit |-> 50, offset |-> 50] >>

\* three results in pages of two, the caller having passed limit and offset
C3_Witness ==
    /\ AllReturned("offset")
    /\ frame.total = 3
    /\ frame.func.max_limit = 2
    /\ "offset" \in DOMAIN frame.given.kwargs
    /\ Len(ret.outcome.value) = 2

\* the identifier list _all_chunked chunks, and the chunks as sent
IdList ==
    LET ids == Yielded(get_ids(frame.func.object_type, frame.given.arg0))
    IN  IF Get(frame.given.kwargs, "unique", FALSE)
        THEN unique_ids(ids, {}) ELSE ids
Sent == [i \in 1..Len(ret.outcome.value) |->
            greenlets[ret.outcome.value[i]].req.params.ids]

\* C4: the chunk strategy dispatches ceil(n/k) requests, one per chunk of
\* k identifiers, the last of 1..k, in the order of the identifier list;
\* each request is the original call with the chunk as first argument.
\* 130 identifiers in chunks of 50: sizes 50, 50, 30.
C4_Chunks ==
    /\ AllReturned("chunk") =>
         LET k == frame.func.chunk_size
             ids == IdList
             n == Len(Sent)
         IN  /\ n * k >= Len(ids)
             /\ (n - 1) * k < Len(ids)
             /\ \A i \in 1..(n - 1) : Len(Sent[i]) = k
             /\ n > 0 => Len(Sent[n]) \in 1..k
             /\ Flatten(Sent) = ids
             /\ \A i \in 1..n :
                    greenlets[ret.outcome.value[i]].req =
                    Endpoint(frame.func,
                             PyList(SubSeq(ids, (i - 1) * k + 1,
                                           Min(i * k, Len(ids)))),
                             Pop(frame.given.kwargs, "unique")).value
    /\ LET chunks == chunked(YieldAll([i \in 1..130 |-> PyInt(i)]), 50)
       IN  [i \in 1..Len(chunks) |-> Len(chunks[i])] = <<50, 50, 30>>

\* three identifiers in chunks of two
C4_Witness ==
    /\ AllReturned("chunk")
    /\ frame.func.chunk_size = 2
    /\ Len(IdList) = 3
    /\ Len(Sent) = 2
    /\ Len(Sent[2]) = 1

\* C5: with unique=true every identifier is sent once, in the order of the
\* first occurrences; with unique absent or false the list is chunked as
\* given, duplicates included.
C5_Unique ==
    AllReturned("chunk") =>
        LET ids == Yielded(get_ids(frame.func.object_type,
                                   frame.given.arg0))
            sent == Flatten(Sent)
        IN  IF Get(frame.given.kwargs, "unique", FALSE)
            THEN /\ \A i, j \in 1..Len(sent) : i # j => sent[i] # sent[j]
                 /\ Range(sent) = Range(ids)
                 /\ \A i, j \in 1..Len(sent) :
                        i < j => FirstIndex(ids, sent[i])
                                 < FirstIndex(ids, sent[j])
            ELSE sent = ids

\* a, b, a with unique=true: a and b are sent, in that order
C5_Witness ==
    /\ AllReturned("chunk")
    /\ Get(frame.given.kwargs, "unique", FALSE)
    /\ Len(frame.given.arg0.v) = 3
    /\ Len(Flatten(Sent)) = 2
    /\ Yielded(get_ids("track", frame.given.arg0))[1]
       = Yielded(get_ids("track", frame.given.arg0))[3]

\* C6: all() takes the offset strategy for an operation with an offset
\* parameter, else the chunk strategy for one that declares a chunk size,
\* and otherwise raises at once with no request dispatched.
C6_StrategySelection ==
    frame.call = "all" =>
        LET f == frame.given.func
        IN  IF "offset" \in f.parameters
            THEN /\ frame.probe = 1
                 /\ greenlets[1].req.params.limit = 1
                 /\ \A g \in 1..Len(greenlets) :
                        "offset" \in DOMAIN greenlets[g].req.params
            ELSE IF "chunk_size" \in f.attrs /\ f.chunk_size > 0
            THEN /\ frame.probe = 0
                 /\ pc = "chunk_loop" \/ ret.call = "all"
                 /\ frame.chunk_size = f.chunk_size
                 /\ \A g \in 1..Len(greenlets) :
                        "ids" \in DOMAIN greenlets[g].req.params
            ELSE /\ pc = "idle"
                 /\ AllRaised
                 /\ greenlets = <<>>

\* an operation with a max page size but no offset parameter was refused
C6_Witness ==
    /\ AllRaised
    /\ frame.given.func.name = "current_user_followed_artists"
    /\ "max_limit" \in frame.given.func.attrs
    /\ greenlets = <<>>

\* C7: when the identifier list holds an item no identifier can be taken
\* from, all() raises and no request has been dispatched.
C7_UsageErrorBeforeDispatch ==
    (AllRaised /\ Strategy(frame.given.func) = "chunk") => greenlets = <<>>

\* C8: empty expansions: a total of 0 leaves the probe as the only request
\* and an empty collection, an empty identifier list dispatches nothing,
\* and joining an empty collection returns an empty list.
C8_EmptyExpansions ==
    /\ (AllReturned("offset") /\ frame.total = 0)
       => ret.outcome.value = <<>> /\ Len(greenlets) = 1
    /\ (AllReturned("chunk") /\ frame.given.arg0 = PyList(<<>>))
       => ret.outcome.value = <<>> /\ greenlets = <<>>
    /\ (JoinedMany /\ ret.target = <<>>)
       => ret.outcome = Return(PyList(<<>>))

\* the empty collection of a result set of 0 was joined with extract
C8_Witness ==
    /\ JoinedMany
    /\ ret.target = <<>>
    /\ Truthy(ret.extract)
    /\ serverTotal = 0
    /\ Len(greenlets) = 1
    /\ Returned(ret.outcome)

Requests == [g \in 1..Len(greenlets) |-> greenlets[g].req]

\* C10: a join dispatches nothing and changes no request, and joining the
\* same handle again with the same extract gives the same outcome.
C10_JoinIdempotent ==
    [][ (pc = "join" \/ pc' = "join") =>
            /\ Requests' = Requests
            /\ pc' # pc => greenlets' = greenlets
            /\ (pc' = "idle" /\ ret'.again) => ret'.outcome = ret.outcome
      ]_vars

\* a failed response was joined twice
C10_Witness ==
    /\ ret.call = "join"
    /\ ret.again
    /\ joins = 2
    /\ Raised(ret.outcome)
    /\ ret.outcome.exc.type = "SpotifyException"

\* the message the fallback of SpotifyException picks for a response
FallbackMessage(r) ==
    IF r.text = EmptyText THEN GenericMessage
    ELSE IF /\ r.text.k = "json"
            /\ IsDict(r.text.v)
            /\ HasKey(r.text.v, "error")
            /\ IsDict(GetKey(r.text.v, "error"))
            /\ HasKey(GetKey(r.text.v, "error"), "message")
         THEN GetKey(GetKey(r.text.v, "error"), "message")
    ELSE TextMessage(r)

\* C11: for every response that is not ok the SpotifyException is built and
\* carries the status, the request URL and the message of the fallback: the
\* API's error message, else the raw text of a body of any shape, else the
\* generic message of an empty body.
C11_ApiErrorMessageFallback ==
    (JoinedOne /\ NotOk(Members[1])) =>
        LET r == Members[1].value
        IN  ret.outcome =
              [kind |-> "raise",
               exc |-> [type |-> "SpotifyException",
                        http_status |-> r.status_code,
                        msg |-> FallbackMessage(r),
                        url |-> Members[1].req.url]]

\* the transport call of the request raised
TransportFailed(g) == g.done /\ g.exception # ""

\* C12: a join of a handle, or of a collection with no failed response,
\* whose transport call raised, raises that transport error at the join.
C12_TransportFailureSurfaces ==
    (/\ ret.call = "join"
     /\ \E i \in DOMAIN Members : TransportFailed(Members[i])
     /\ \A i \in DOMAIN Members : ~NotOk(Members[i]))
    => /\ Raised(ret.outcome)
       /\ ret.outcome.exc.type \in TransportErrors

SlotFree == gpool = 0 \/ InFlight(greenlets) < gpool

\* C14: a dispatch waits for no response: whenever a slot is free the next
\* request of a dispatch loop can be spawned, whatever is still unresolved,
\* and spawning it leaves the earlier requests as they are and the new
\* request unresolved.
C14_DispatchNeverWaits ==
    /\ []((pc = "offset_loop" /\ frame.c < frame.callcount /\ SlotFree)
          => ENABLED OffsetDispatch)
    /\ []((/\ pc = "chunk_loop"
           /\ next_chunk(frame.items, frame.chunk_size, <<>>).got = "chunk"
           /\ SlotFree)
          => ENABLED ChunkDispatch)
    /\ [][ Len(greenlets') > Len(greenlets)
           => /\ SubSeq(greenlets', 1, Len(greenlets)) = greenlets
              /\ ~greenlets'[Len(greenlets')].done ]_vars

\* all() returned its collection of three requests, none of them resolved
\* but the probe
C14_Witness ==
    /\ gpool = 0
    /\ ret.call = "all"
    /\ Returned(ret.outcome)
    /\ Len(ret.outcome.value) = 2
    /\ \A i \in 1..2 : ~greenlets[ret.outcome.value[i]].done

\* C15: when a join of a collection returns or raises, every member has
\* resolved, also when an early member failed; and a collection with a
\* failed member gives no result list: the join raises.
C15_JoinWaitsForAll ==
    JoinedMany =>
        /\ \A i \in DOMAIN Members : Members[i].done
        /\ (\E i \in DOMAIN Members :
                NotOk(Members[i]) \/ TransportFailed(Members[i]))
           => Raised(ret.outcome)

\* the first of two members failed and the second resolved later
C15_Witness ==
    /\ JoinedMany
    /\ Len(ret.target) = 2
    /\ NotOk(Members[1])
    /\ Members[2].done
    /\ FinishedAt(ret.target[1]) < FinishedAt(ret.target[2])
    /\ Raised(ret.outcome)

\* the items of the server's result set, in server order
ServerItems == [i \in 1..serverTotal |-> PyInt(i - 1)]

\* C16: against a server with a stable total T that answers every page
\* request with the items it asks for, joining the collection of all() with
\* extract returns the T items of the server, each once, in server order.
C16_AllPagesEndToEnd ==
    (JoinedMany /\ Truthy(ret.extract))
    => ret.outcome = Return(PyList(ServerItems))

\* three items in pages of two, the second page resolved before the first
C16_Witness ==
    /\ JoinedMany
    /\ Truthy(ret.extract)
    /\ serverTotal = 3
    /\ Len(ret.target) = 2
    /\ FinishedAt(ret.target[2]) < FinishedAt(ret.target[1])
    /\ ret.outcome = Return(PyList(<<PyInt(0), PyInt(1), PyInt(2)>>))

\* the transport call waits to make its next attempt
Retrying(g) == ~g.done /\ g.last # <<>>

Transient(status) == status = 429 \/ status \in 500..599

C18_IdFromReference ==
    ret.call = "id_from_str" =>
        \A form \in Forms, x \in Ids :
            frame.arg0 = PyStr(Reference(form, x))
            => ret.outcome = Return(PyStr(<<x>>))

\* equality of Python values, by type first
RECURSIVE Same(_, _)
Same(x, y) ==
    IF x.t # y.t THEN FALSE
    ELSE IF x.t = "None" THEN TRUE
    ELSE IF x.t \in {"str", "int"} THEN x.v = y.v
    ELSE /\ Len(x.v) = Len(y.v)
         /\ \A i \in 1..Len(x.v) :
                IF x.t = "dict"
                THEN x.v[i].k = y.v[i].k /\ Same(x.v[i].v, y.v[i].v)
                ELSE Same(x.v[i], y.v[i])

\* what C19 says the k-th of IdItems yields for an item type: its ids, the
\* unsupported-item-type error, or nothing the claim speaks of ("none":
\* the nested object the unwrapping looks for is not there)
Expected(item_type, k) ==
    IF k = 1 THEN [kind |-> "ids", ids |-> <<"a">>]
    ELSE IF k = 2 THEN [kind |-> "ids", ids |-> <<"b">>]
    ELSE IF item_type = "playlist"
    THEN IF k = 7 THEN [kind |-> "ids", ids |-> <<"p">>]
         ELSE [kind |-> "error", ids |-> <<>>]
    ELSE IF k = 3
    THEN IF item_type = "track" THEN [kind |-> "ids", ids |-> <<"c">>]
         ELSE [kind |-> "none", ids |-> <<>>]
    ELSE IF k = 4
    THEN IF item_type = "track" THEN [kind |-> "ids", ids |-> <<"d">>]
         ELSE [kind |-> "none", ids |-> <<>>]
    ELSE IF k \in {5, 6}
    THEN IF item_type = "album" THEN [kind |-> "ids", ids |-> <<"e">>]
         ELSE IF item_type = "artist"
         THEN [kind |-> "ids", ids |-> <<"f", "g">>]
         ELSE [kind |-> "ids", ids |-> <<"h", "i">>]
    ELSE [kind |-> "none", ids |-> <<>>]

\* C19 for the list of the items of IdItems that picks names
IdsAsClaimed(item_type, picks, outcome) ==
    LET n == Len(picks)
        E(i) == Expected(item_type, picks[i])
    IN  (\A i \in 1..n : E(i).kind # "none") =>
            IF \E i \in 1..n : E(i).kind = "error"
            THEN outcome = Raise("ValueError")
            ELSE /\ Returned(outcome)
                 /\ outcome.value.v =
                      [j \in 1..Len(Flatten([i \in 1..n |-> E(i).ids])) |->
                          PyStr(<<Flatten([i \in 1..n |-> E(i).ids])[j]>>)]

\* C19: get_ids yields the ids of its items in the order of the items: the
\* normalized id of a string, the id of an object of the item type, else
\* what the unwrapping for the item type finds (album: the id of the nested
\* album; artist: the ids of the nested artists, in order; track: the id
\* under track, else the ids of the nested tracks.items); an object of
\* another type under any other item type raises ValueError; one object
\* stands for the list that holds it.
C19_GetIdsInOrder ==
    ret.call = "get_ids" =>
        LET items == IF IsDict(frame.arg0) THEN <<frame.arg0>>
                     ELSE frame.arg0.v
            picks == [i \in 1..Len(items) |->
                         CHOOSE k \in 1..Len(IdItems) :
                             Same(items[i], IdItems[k])]
        IN  IdsAsClaimed(frame.key, picks, ret.outcome)

\* the artists of a saved album and a URI, in that order
C19_Witness ==
    /\ ret.call = "get_ids"
    /\ frame.key = "artist"
    /\ Same(frame.arg0, PyList(<<IdItems[6], IdItems[2]>>))
    /\ ret.outcome = Return(PyList(<<PyStr(<<"f">>), PyStr(<<"g">>),
                                     PyStr(<<"b">>)>>))

\* x is stored under key in d or in a mapping reachable from d through
\* mapping-valued fields
RECURSIVE StoredUnder(_, _, _)
StoredUnder(key, d, x) ==
    \E i \in 1..Len(d.v) :
        \/ d.v[i].k = key /\ Same(d.v[i].v, x)
        \/ IsDict(d.v[i].v) /\ StoredUnder(key, d.v[i].v, x)

RECURSIVE Occurs(_, _)
Occurs(key, d) ==
    \E i \in 1..Len(d.v) :
        \/ d.v[i].k = key
        \/ IsDict(d.v[i].v) /\ Occurs(key, d.v[i].v)

\* C20: find_item returns the value under key at the top level when there
\* is one, else a value stored under key in a nested mapping when key
\* occurs in one, else None; it returns for every mapping.
C20_FindItem ==
    ret.call = "find_item" =>
        /\ Returned(ret.outcome)
        /\ IF HasKey(frame.arg0, frame.key)
           THEN Same(ret.outcome.value, GetKey(frame.arg0, frame.key))
           ELSE IF Occurs(frame.key, frame.arg0)
           THEN StoredUnder(frame.key, frame.arg0, ret.outcome.value)
           ELSE Same(ret.outcome.value, None)

\* the key is three levels down, behind a mapping that does not hold it
C20_Witness ==
    /\ ret.call = "find_item"
    /\ frame.key = "items"
    /\ Same(frame.arg0, Nested(<<3, 1, 3>>, 1))
    /\ Same(ret.outcome.value, PyStr(<<"found me">>))

\* the expansion in progress or just ended follows the offset strategy
OffsetExpansion == frame.call = "all" /\ Strategy(frame.func) = "offset"

\* the least number of pages of L items that hold T items
PagesFor(T, L) == CHOOSE n \in 0..T : n * L >= T /\ (n = 0 \/ (n - 1) * L < T)

Failing == {i \in DOMAIN Members : NotOk(Members[i])}

\* the first of them in dispatch order
FirstFailing == CHOOSE i \in Failing : \A j \in Failing : i <= j

ListFields == <<"items", "tracks", "albums", "artists">>

\* what a flattening join takes from a decoded body: <<x>>, or <<>> when
\* the body is no list and has none of the fields
Taken(body) ==
    IF IsList(body) THEN <<body>>
    ELSE IF ~IsDict(body) THEN <<>>
    ELSE IF \A k \in 1..Len(ListFields) : ~HasKey(body, ListFields[k])
         THEN <<>>
    ELSE LET k == CHOOSE k \in 1..Len(ListFields) :
                      /\ HasKey(body, ListFields[k])
                      /\ \A j \in 1..(k - 1) : ~HasKey(body, ListFields[j])
         IN  <<GetKey(body, ListFields[k])>>

TakesList(g) == Taken(Body(g)) # <<>> /\ IsList(Taken(Body(g))[1])

\* C23: a collection join with extract takes from each decoded body the
\* body itself if it is a list, else its field items, else tracks, else
\* albums, else artists, and returns the elements of these lists in one
\* list; a body that is no list and has none of the fields makes the join
\* raise; without extract each decoded body is one element of the result.
C23_ExtractPriority ==
    (JoinedMany /\ \A i \in DOMAIN Members : OkJson(Members[i])) =>
        LET m == Members
        IN  /\ (Truthy(ret.extract) /\ \A i \in DOMAIN m : TakesList(m[i]))
               => ret.outcome =
                    Return(PyList(Flatten([i \in DOMAIN m |->
                                              Taken(Body(m[i]))[1].v])))
            /\ (/\ Truthy(ret.extract)
                /\ \E i \in DOMAIN m :
                       /\ Taken(Body(m[i])) = <<>>
                       /\ \A j \in 1..(i - 1) : TakesList(m[j]))
               => /\ Raised(ret.outcome)
                  /\ ret.outcome.exc.type \in {"Exception", "TypeError"}
            /\ ~Truthy(ret.extract)
               => ret.outcome = Return(PyList([i \in DOMAIN m |-> Body(m[i])]))

\* a body with tracks before items, then one with albums before tracks,
\* finished in the other order and joined with extract
C23_Witness ==
    /\ JoinedMany
    /\ Truthy(ret.extract)
    /\ Len(ret.target) = 2
    /\ Members[1].value.text = Bodies[4]
    /\ Members[2].value.text = Bodies[5]
    /\ FinishedAt(ret.target[2]) < FinishedAt(ret.target[1])
    /\ ret.outcome = Return(IntList(<<5, 6, 8>>))

OkEmpty(g) == HasResponse(g) /\ ok(g.value) /\ ~HasText(g.value)

\* C26: a join of n requests whose responses are all ok returns, without
\* extract, n elements, the i-th the decoded body of request i or None
\* when that body is empty; with extract it returns the elements of the
\* lists taken from the bodies and nothing for a response with an empty
\* body.
C26_EmptyBodies ==
    (/\ JoinedMany
     /\ \A i \in DOMAIN Members : OkJson(Members[i]) \/ OkEmpty(Members[i]))
    => LET m == Members
       IN  /\ ~Truthy(ret.extract)
              => /\ Returned(ret.outcome)
                 /\ Len(ret.outcome.value.v) = Len(ret.target)
                 /\ \A i \in DOMAIN m :
                        ret.outcome.value.v[i] =
                            IF OkEmpty(m[i]) THEN None ELSE Body(m[i])
           /\ (/\ Truthy(ret.extract)
               /\ \A i \in DOMAIN m : OkEmpty(m[i]) \/ TakesList(m[i]))
              => ret.outcome =
                   Return(PyList(Flatten([i \in DOMAIN m |->
                                     IF OkEmpty(m[i]) THEN <<>>
                                     ELSE Taken(Body(m[i]))[1].v])))

\* a dispatch of the expansion in progress waits for a slot of the pool
Blocked ==
    /\ ~CanSpawn
    /\ \/ pc = "offset_loop" /\ frame.c < frame.callcount
       \/ /\ pc = "chunk_loop"
          /\ next_chunk(frame.items, frame.chunk_size, <<>>).got = "chunk"

C25_HelperOfItsClient ==
    (frame.call = "all" /\ frame.via # 0)
    => /\ frame.self = frame.via
       /\ gpool = clients.made[frame.via].gpool
====
